---- MODULE Spec2Model ----
(***************************************************************************)
(* A model of the `fake` compiler driver: the catalog builder              *)
(* (DriverBuilder), the planner (Driver::find_path, Driver::plan) and the  *)
(* script emitter (Run::emit).                                             *)
(*                                                                         *)
(* Handles (StateRef, OpRef, SetupRef) are the 1-based positions of the    *)
(* entries in their PrimaryMap; 0 stands for Option::None where a handle   *)
(* is optional.                                                            *)
(***************************************************************************)
EXTENDS Integers, Sequences, FiniteSets, TLC

VARIABLES
    states,     \* PrimaryMap<StateRef, State>
    setups,     \* PrimaryMap<SetupRef, Setup>
    ops,        \* PrimaryMap<OpRef, Operation>
    built,      \* FALSE: a DriverBuilder; TRUE: the Driver returned by build()
    stdin_op,   \* Driver::stdin_op (0 before build)
    stdout_op,  \* Driver::stdout_op (0 before build)
    req,        \* the request of the last find_path / plan call
    path,       \* the Option<Vec<OpRef>> find_path returned for req
    planned,    \* the outcome of the last plan call
    script,     \* the outcome of the last emit call
    ran,        \* the outcome of the last emit_and_run call
    rel,        \* the last relative_path call and what it returned
    looked,     \* the last get_state / get_op call and what it returned
    got,        \* the configuration and the last lookup in it
    dot,        \* what the last show_dot call rendered
    srch        \* the find_path call in progress, statement by statement

vars == <<states, setups, ops, built, stdin_op, stdout_op, req, path, planned, script,
          ran, rel, looked, got, dot, srch>>

(***************************************************************************)
(* Bounds of the model.                                                    *)
(***************************************************************************)
MaxStates == 3      \* states registered by the user
MaxOps == 3         \* operations registered by the user
MaxThrough == 2     \* waypoints in a request
MaxSetups == 2      \* setups registered by the user
MaxSetupRefs == 2   \* length of an operation's setup list

(***************************************************************************)
(* Option<T>                                                               *)
(***************************************************************************)
None == [some |-> FALSE, val |-> <<>>]
Some(v) == [some |-> TRUE, val |-> v]

SeqsUpTo(S, n) == UNION {[1..k -> S] : k \in 0..n}

Reverse(s) == [i \in 1..Len(s) |-> s[Len(s) + 1 - i]]

StateRefs == 1..Len(states)
OpRefs == 1..Len(ops)
SetupRefs == 1..Len(setups)

(***************************************************************************)
(* enum Destination { State(StateRef), Op(OpRef) }                         *)
(***************************************************************************)
DestState(s) == [kind |-> "State", ref |-> s]
DestOp(o) == [kind |-> "Op", ref |-> o]

(***************************************************************************)
(* Driver::find_path_segment                                               *)
(***************************************************************************)
\* The `for (op_ref, op) in self.ops.iter()` loop from position k on, for the
\* dequeued state cur.  bfs = [queue, visited, breadcrumbs].
\* Mutant of ScanOps: an edge into a state that is still queued overwrites
\* that state's breadcrumb.
RECURSIVE ScanOps_relax(_, _, _, _)
ScanOps_relax(k, cur, end, bfs) ==
    IF k > Len(ops) THEN bfs
    ELSE
        LET o == ops[k]
            take == o.input = cur /\ o.output \notin bfs.visited
            queued == \E i \in 1..Len(bfs.queue) : bfs.queue[i] = o.output
            nxt == IF take
                   THEN [queue |-> Append(bfs.queue, o.output),
                         visited |-> bfs.visited \cup {o.output},
                         breadcrumbs |-> [bfs.breadcrumbs EXCEPT ![o.output] = k]]
                   ELSE IF o.input = cur /\ queued
                   THEN [bfs EXCEPT !.breadcrumbs[o.output] = k]
                   ELSE bfs
        IN  IF end = DestOp(k) THEN nxt
            ELSE ScanOps_relax(k + 1, cur, end, nxt)

\* Mutant of ScanOps: the operations are scanned from the last registered to
\* the first.
RECURSIVE ScanOps_reverse(_, _, _, _)
ScanOps_reverse(k, cur, end, bfs) ==
    IF k > Len(ops) THEN bfs
    ELSE
        LET j == Len(ops) + 1 - k
            o == ops[j]
            take == o.input = cur /\ o.output \notin bfs.visited
            nxt == IF take
                   THEN [queue |-> Append(bfs.queue, o.output),
                         visited |-> bfs.visited \cup {o.output},
                         breadcrumbs |-> [bfs.breadcrumbs EXCEPT ![o.output] = j]]
                   ELSE bfs
        IN  IF end = DestOp(j) THEN nxt
            ELSE ScanOps_reverse(k + 1, cur, end, nxt)

RECURSIVE ScanOps(_, _, _, _)
ScanOps(k, cur, end, bfs) ==
    IF k > Len(ops) THEN bfs
    ELSE
        LET o == ops[k]
            take == o.input = cur /\ o.output \notin bfs.visited
            nxt == IF take
                   THEN [queue |-> Append(bfs.queue, o.output),
                         visited |-> bfs.visited \cup {o.output},
                         breadcrumbs |-> [bfs.breadcrumbs EXCEPT ![o.output] = k]]
                   ELSE bfs
        IN  IF end = DestOp(k) THEN nxt      \* break out of the for loop
            ELSE ScanOps(k + 1, cur, end, nxt)

\* The `while !state_queue.is_empty()` loop.
RECURSIVE BfsLoop(_, _)
BfsLoop(end, bfs) ==
    IF bfs.queue = <<>> THEN bfs
    ELSE
        LET cur == Head(bfs.queue)
            popped == [bfs EXCEPT !.queue = Tail(bfs.queue)]
        IN  IF end = DestState(cur) THEN popped      \* break out of the while loop
            ELSE BfsLoop(end, ScanOps(1, cur, end, popped))

\* The `while cur_state != start` loop: op_path is built back to front.
RECURSIVE WalkBack(_, _, _, _)
WalkBack(cur, start, breadcrumbs, op_path) ==
    IF cur = start THEN Some(Reverse(op_path))
    ELSE IF breadcrumbs[cur] = 0 THEN None
    ELSE WalkBack(ops[breadcrumbs[cur]].input, start, breadcrumbs,
                  Append(op_path, breadcrumbs[cur]))

\* Mutant of find_path_segment: the target operation is not pushed on the
\* path.
find_path_segment_no_push(start, end) ==
    LET bfs0 == [queue |-> <<start>>,
                 visited |-> {start},
                 breadcrumbs |-> [s \in StateRefs |-> 0]]
        bfs == BfsLoop(end, bfs0)
    IN  IF end.kind = "State"
        THEN WalkBack(end.ref, start, bfs.breadcrumbs, <<>>)
        ELSE WalkBack(ops[end.ref].input, start, bfs.breadcrumbs, <<>>)

find_path_segment(start, end) ==
    LET bfs0 == [queue |-> <<start>>,
                 visited |-> {start},
                 breadcrumbs |-> [s \in StateRefs |-> 0]]
        bfs == BfsLoop(end, bfs0)
    IN  IF end.kind = "State"
        THEN WalkBack(end.ref, start, bfs.breadcrumbs, <<>>)
        ELSE WalkBack(ops[end.ref].input, start, bfs.breadcrumbs, <<end.ref>>)

(***************************************************************************)
(* Driver::find_path                                                       *)
(***************************************************************************)
\* Mutant of FindPathFrom: a segment without a path counts as an empty
\* segment instead of failing the whole search.
RECURSIVE FindPathFrom_partial(_, _, _, _, _)
FindPathFrom_partial(i, cur_state, end, through, op_path) ==
    IF i > Len(through)
    THEN LET segment == find_path_segment(cur_state, DestState(end))
         IN  IF segment.some THEN Some(op_path \o segment.val) ELSE Some(op_path)
    ELSE LET segment == find_path_segment(cur_state, DestOp(through[i]))
         IN  FindPathFrom_partial(i + 1, ops[through[i]].output, end, through,
                                  IF segment.some THEN op_path \o segment.val
                                  ELSE op_path)

\* Mutant of FindPathFrom: cur_state is not advanced to the waypoint's output.
RECURSIVE FindPathFrom_stale(_, _, _, _, _)
FindPathFrom_stale(i, cur_state, end, through, op_path) ==
    IF i > Len(through)
    THEN LET segment == find_path_segment(cur_state, DestState(end))
         IN  IF segment.some THEN Some(op_path \o segment.val) ELSE None
    ELSE LET segment == find_path_segment(cur_state, DestOp(through[i]))
         IN  IF segment.some
             THEN FindPathFrom_stale(i + 1, cur_state, end, through,
                                     op_path \o segment.val)
             ELSE None

\* The `for op in through` loop from position i on, then the final segment.
RECURSIVE FindPathFrom(_, _, _, _, _)
FindPathFrom(i, cur_state, end, through, op_path) ==
    IF i > Len(through)
    THEN LET segment == find_path_segment(cur_state, DestState(end))
         IN  IF segment.some THEN Some(op_path \o segment.val) ELSE None
    ELSE LET segment == find_path_segment(cur_state, DestOp(through[i]))
         IN  IF segment.some
             THEN FindPathFrom(i + 1, ops[through[i]].output, end, through,
                               op_path \o segment.val)
             ELSE None

find_path(start, end, through) == FindPathFrom(1, start, end, through, <<>>)

(***************************************************************************)
(* Paths (camino::Utf8Path).  A path is the sequence of its components; a  *)
(* normal component is the sequence of the dot-separated parts of its      *)
(* name ("foo.a" is <<"foo", "a">>); RootDir, CurDir and ParentDir are     *)
(* the components "/", "." and "..".                                       *)
(***************************************************************************)
RootDir == <<"/">>
CurDir == <<".">>
ParentDir == <<"..">>

is_absolute(p) == p # <<>> /\ p[1] = RootDir

\* Utf8Path::file_stem: None for a path without file name; the name without
\* its last extension; a name with no dot after its first character is its
\* own stem.
file_stem(p) ==
    IF p = <<>> \/ p[Len(p)] \in {RootDir, CurDir, ParentDir} THEN None
    ELSE LET name == p[Len(p)]
         IN  IF Len(name) = 1 \/ (Len(name) = 2 /\ name[1] = "") THEN Some(name)
             ELSE Some(SubSeq(name, 1, Len(name) - 1))

\* Utf8PathBuf::from(stem).with_extension(ext): the extension the stem still
\* carries is replaced; an empty ext only removes it.
with_extension(stem, ext) ==
    LET base == file_stem(<<stem>>).val
    IN  IF ext = "" THEN <<base>> ELSE <<Append(base, ext)>>

\* pathdiff::diff_utf8_paths, the loop over the two component iterators from
\* position i on; comps is the result so far.
RECURSIVE DiffLoop(_, _, _, _)
DiffLoop(p, b, i, comps) ==
    IF i > Len(p) /\ i > Len(b) THEN Some(comps)
    ELSE IF i > Len(b) THEN Some(comps \o SubSeq(p, i, Len(p)))
    ELSE IF i > Len(p) THEN DiffLoop(p, b, i + 1, Append(comps, ParentDir))
    ELSE IF comps = <<>> /\ p[i] = b[i] THEN DiffLoop(p, b, i + 1, comps)
    ELSE IF b[i] = CurDir THEN DiffLoop(p, b, i + 1, Append(comps, p[i]))
    ELSE IF b[i] = ParentDir THEN None
    ELSE Some(comps \o [k \in 1..(Len(b) - i + 1) |-> ParentDir]
                    \o SubSeq(p, i, Len(p)))

diff_utf8_paths(p, b) ==
    IF is_absolute(p) # is_absolute(b)
    THEN IF is_absolute(p) THEN Some(p) ELSE None
    ELSE DiffLoop(p, b, 1, <<>>)

\* The invocation directory, against which canonicalize resolves.
InvocationDir == <<RootDir, <<"cwd">>>>

\* The absolute path without `.` and `..` that p names when the current
\* directory is cwd (an absolute path without `.` and `..`); there are no
\* symbolic links.
RECURSIVE Resolve(_, _)
Resolve(cwd, p) ==
    IF p = <<>> THEN cwd
    ELSE IF p[1] = RootDir THEN Resolve(<<RootDir>>, Tail(p))
    ELSE IF p[1] = CurDir THEN Resolve(cwd, Tail(p))
    ELSE IF p[1] = ParentDir
    THEN Resolve(IF Len(cwd) > 1 THEN SubSeq(cwd, 1, Len(cwd) - 1) ELSE cwd, Tail(p))
    ELSE Resolve(Append(cwd, p[1]), Tail(p))

\* Utf8Path::canonicalize_utf8, run in the invocation directory; None is its
\* Err (fs_ok = FALSE: the file does not exist).
canonicalize(p, fs_ok) == IF fs_ok THEN Some(Resolve(InvocationDir, p)) ELSE None

\* relative_path: the difference of the paths, else the canonical absolute
\* path; None stands for the panic of `expect` when canonicalize fails.
relative_path(p, base, fs_ok) ==
    LET d == diff_utf8_paths(p, base)
    IN  IF d.some THEN d ELSE canonicalize(p, fs_ok)

\* Path::starts_with: base is a prefix of p, component by component.
starts_with(p, base) == Len(base) <= Len(p) /\ SubSeq(p, 1, Len(base)) = base

\* PathBuf::push of the components of p: an absolute p replaces the buffer.
push(buf, p) == IF is_absolute(p) THEN p ELSE buf \o p

\* The relative_path of the first prototype (src/src/cli.rs); None stands for
\* the panic of `unwrap` when canonicalize fails.
relative_path_cli(p, base, fs_ok) ==
    IF base = <<CurDir>> \/ is_absolute(p) THEN Some(p)
    ELSE IF starts_with(p, base) THEN Some(SubSeq(p, Len(base) + 1, Len(p)))
    ELSE IF ~is_absolute(base)
    THEN IF \E i \in 1..Len(base) : base[i] = ParentDir
         THEN canonicalize(p, fs_ok)
         ELSE Some(push([i \in 1..Len(base) |-> ParentDir], p))
    ELSE canonicalize(p, fs_ok)

(***************************************************************************)
(* Driver::gen_name and Driver::plan                                       *)
(***************************************************************************)
\* None stands for the panic of `extensions[0]` on an empty extension list.
gen_name(stem, st) ==
    IF states[st].extensions = <<>> THEN None
    ELSE Some(with_extension(stem, states[st].extensions[1]))

Panic(why) == [kind |-> "Panic", why |-> why, start |-> <<>>, steps |-> <<>>, workdir |-> <<>>]
NoPath == [kind |-> "None", why |-> "", start |-> <<>>, steps |-> <<>>, workdir |-> <<>>]
Plan(start, steps, workdir) ==
    [kind |-> "Plan", why |-> "", start |-> start, steps |-> steps, workdir |-> workdir]
NotPlanned == [kind |-> "NotCalled", why |-> "", start |-> <<>>, steps |-> <<>>, workdir |-> <<>>]

Step_(o, file) == [op |-> o, file |-> file]

\* Mutant of PlanEnd: the end file replaces the first step's name.
PlanEnd_first(r, start_file, steps, fs_ok) ==
    IF r.end_file.some
    THEN IF steps = <<>> THEN Panic("no steps")
         ELSE LET f == relative_path(r.end_file.val, r.workdir, fs_ok)
              IN  IF ~f.some THEN Panic("could not get absolute path")
                  ELSE Plan(start_file, [steps EXCEPT ![1].file = f.val], r.workdir)
    ELSE Plan(start_file, Append(steps, Step_(stdout_op, <<<<"_stdout">>>>)), r.workdir)

\* Mutant of PlanEnd: without steps the end file is dropped instead of
\* panicking.
PlanEnd_no_expect(r, start_file, steps, fs_ok) ==
    IF r.end_file.some
    THEN IF steps = <<>> THEN Plan(start_file, steps, r.workdir)
         ELSE LET f == relative_path(r.end_file.val, r.workdir, fs_ok)
              IN  IF ~f.some THEN Panic("could not get absolute path")
                  ELSE Plan(start_file,
                            [steps EXCEPT ![Len(steps)].file = f.val],
                            r.workdir)
    ELSE Plan(start_file, Append(steps, Step_(stdout_op, <<<<"_stdout">>>>)), r.workdir)

\* Lines 230-246: the end file replaces the last step's name, or the stdout
\* step is appended.
PlanEnd(r, start_file, steps, fs_ok) ==
    IF r.end_file.some
    THEN IF steps = <<>> THEN Panic("no steps")
         ELSE LET f == relative_path(r.end_file.val, r.workdir, fs_ok)
              IN  IF ~f.some THEN Panic("could not get absolute path")
                  ELSE Plan(start_file,
                            [steps EXCEPT ![Len(steps)].file = f.val],
                            r.workdir)
    ELSE Plan(start_file, Append(steps, Step_(stdout_op, <<<<"_stdout">>>>)), r.workdir)

\* Lines 222-228: the stem, and one generated name per operation of the path.
PlanSteps(r, p, start_file, steps0, fs_ok) ==
    LET stem == file_stem(start_file)
    IN  IF ~stem.some THEN Panic("unwrap on None")
        ELSE IF \E i \in 1..Len(p) : ~gen_name(stem.val, ops[p[i]].output).some
        THEN Panic("index out of bounds")
        ELSE PlanEnd(r, start_file,
                     steps0 \o [i \in 1..Len(p) |->
                                   Step_(p[i], gen_name(stem.val, ops[p[i]].output).val)],
                     fs_ok)

\* Mutant of plan: the stdin file is named after the output state of the
\* first operation.
plan_named_by_output(r, fs_ok) ==
    LET found == find_path(r.start_state, r.end_state, r.through)
    IN  IF ~found.some THEN NoPath
        ELSE IF r.start_file.some
        THEN LET f == relative_path(r.start_file.val, r.workdir, fs_ok)
             IN  IF ~f.some THEN Panic("could not get absolute path")
                 ELSE PlanSteps(r, found.val, f.val, <<>>, fs_ok)
        ELSE IF found.val = <<>> THEN Panic("index out of bounds")
        ELSE LET filename == gen_name(<<"stdin">>, ops[found.val[1]].output)
             IN  IF ~filename.some THEN Panic("index out of bounds")
                 ELSE PlanSteps(r, found.val, filename.val,
                                <<Step_(stdin_op, filename.val)>>, fs_ok)

plan(r, fs_ok) ==
    LET found == find_path(r.start_state, r.end_state, r.through)
    IN  IF ~found.some THEN NoPath
        ELSE IF r.start_file.some
        THEN LET f == relative_path(r.start_file.val, r.workdir, fs_ok)
             IN  IF ~f.some THEN Panic("could not get absolute path")
                 ELSE PlanSteps(r, found.val, f.val, <<>>, fs_ok)
        ELSE IF found.val = <<>> THEN Panic("index out of bounds")
        ELSE LET filename == gen_name(<<"stdin">>, ops[found.val[1]].input)
             IN  IF ~filename.some THEN Panic("index out of bounds")
                 ELSE PlanSteps(r, found.val, filename.val,
                                <<Step_(stdin_op, filename.val)>>, fs_ok)

(***************************************************************************)
(* Run::emit.  The script is the sequence of what is written to the sink:  *)
(* emit's own lines and, for each callback, the invocation itself (what a  *)
(* user callback writes is opaque).  fail is the position, among the       *)
(* callback invocations, of the one that returns Err (0: none does).       *)
(***************************************************************************)
Line(kind, ref, text, a, b) == [kind |-> kind, ref |-> ref, text |-> text, a |-> a, b |-> b]
Comment(text) == Line("comment", 0, text, <<>>, <<>>)
Blank == Line("blank", 0, "", <<>>, <<>>)
SetupCall(sref) == Line("setup", sref, "", <<>>, <<>>)
BuildCall(o, input, output) == Line("build", o, "", input, output)
Default(file) == Line("default", 0, "", file, <<>>)

Emitted(ok, out, calls) == [kind |-> IF ok THEN "Ok" ELSE "Err", out |-> out, calls |-> calls]
NotEmitted == [kind |-> "NotCalled", out |-> <<>>, calls |-> 0]

\* Mutant of EmitBuilds: the steps of the stdin and stdout operations get
\* no build callback.
RECURSIVE EmitBuilds_skip_synthetic(_, _, _, _, _, _)
EmitBuilds_skip_synthetic(steps, i, last_file, out, calls, fail) ==
    IF i > Len(steps)
    THEN Emitted(TRUE, out \o <<Blank, Default(last_file)>>, calls)
    ELSE IF steps[i].op \in {stdin_op, stdout_op}
    THEN EmitBuilds_skip_synthetic(steps, i + 1, steps[i].file, out, calls, fail)
    ELSE LET out1 == Append(out, BuildCall(steps[i].op, last_file, steps[i].file))
         IN  IF calls + 1 = fail THEN Emitted(FALSE, out1, calls + 1)
             ELSE EmitBuilds_skip_synthetic(steps, i + 1, steps[i].file, out1,
                                            calls + 1, fail)

\* Mutant of EmitBuilds: last_file is not advanced, every callback gets
\* plan.start as its input.
RECURSIVE EmitBuilds_no_advance(_, _, _, _, _, _)
EmitBuilds_no_advance(steps, i, last_file, out, calls, fail) ==
    IF i > Len(steps)
    THEN Emitted(TRUE, out \o <<Blank, Default(last_file)>>, calls)
    ELSE LET out1 == Append(out, BuildCall(steps[i].op, last_file, steps[i].file))
         IN  IF calls + 1 = fail THEN Emitted(FALSE, out1, calls + 1)
             ELSE EmitBuilds_no_advance(steps, i + 1, last_file, out1, calls + 1, fail)

\* Lines 153-165: one build callback per step from step i on, then the
\* default target.
RECURSIVE EmitBuilds(_, _, _, _, _, _)
EmitBuilds(steps, i, last_file, out, calls, fail) ==
    IF i > Len(steps)
    THEN Emitted(TRUE, out \o <<Blank, Default(last_file)>>, calls)
    ELSE LET out1 == Append(out, BuildCall(steps[i].op, last_file, steps[i].file))
         IN  IF calls + 1 = fail THEN Emitted(FALSE, out1, calls + 1)
             ELSE EmitBuilds(steps, i + 1, steps[i].file, out1, calls + 1, fail)

\* Mutant of EmitSetups: no done_setups check, every reference is emitted.
RECURSIVE EmitSetups_no_dedup(_, _, _, _, _, _, _)
EmitSetups_no_dedup(p, i, j, done_setups, out, calls, fail) ==
    IF i > Len(p.steps)
    THEN EmitBuilds(p.steps, 1, p.start, Append(out, Comment("build targets")), calls, fail)
    ELSE LET refs == ops[p.steps[i].op].setups
         IN  IF j > Len(refs)
             THEN EmitSetups_no_dedup(p, i + 1, 1, done_setups, out, calls, fail)
             ELSE LET out1 == out \o <<Comment(setups[refs[j]].name), SetupCall(refs[j])>>
                  IN  IF calls + 1 = fail THEN Emitted(FALSE, out1, calls + 1)
                      ELSE EmitSetups_no_dedup(p, i, j + 1, done_setups,
                                               Append(out1, Blank), calls + 1, fail)

\* Mutant of EmitSetups: the referenced setups are collected first and
\* emitted in handle order.
RECURSIVE EmitPending(_, _, _, _, _)
EmitPending(p, pending, out, calls, fail) ==
    IF pending = {}
    THEN EmitBuilds(p.steps, 1, p.start, Append(out, Comment("build targets")), calls, fail)
    ELSE LET sref == CHOOSE x \in pending : \A y \in pending : x <= y
             out1 == out \o <<Comment(setups[sref].name), SetupCall(sref)>>
         IN  IF calls + 1 = fail THEN Emitted(FALSE, out1, calls + 1)
             ELSE EmitPending(p, pending \ {sref}, Append(out1, Blank), calls + 1, fail)

EmitSetups_by_handle(p, i, j, done_setups, out, calls, fail) ==
    EmitPending(p,
                UNION {{ops[p.steps[k].op].setups[m] :
                           m \in 1..Len(ops[p.steps[k].op].setups)} :
                       k \in 1..Len(p.steps)},
                out, calls, fail)

\* Lines 139-149: the setups of step i from position j of its operation's
\* setup list on, each emitted unless its handle is in done_setups.
RECURSIVE EmitSetups(_, _, _, _, _, _, _)
EmitSetups(p, i, j, done_setups, out, calls, fail) ==
    IF i > Len(p.steps)
    THEN EmitBuilds(p.steps, 1, p.start, Append(out, Comment("build targets")), calls, fail)
    ELSE LET refs == ops[p.steps[i].op].setups
         IN  IF j > Len(refs) THEN EmitSetups(p, i + 1, 1, done_setups, out, calls, fail)
             ELSE IF refs[j] \in done_setups
             THEN EmitSetups(p, i, j + 1, done_setups, out, calls, fail)
             ELSE LET out1 == out \o <<Comment(setups[refs[j]].name), SetupCall(refs[j])>>
                  IN  IF calls + 1 = fail THEN Emitted(FALSE, out1, calls + 1)
                      ELSE EmitSetups(p, i, j + 1, done_setups \cup {refs[j]},
                                      Append(out1, Blank), calls + 1, fail)

emit(p, fail) == EmitSetups(p, 1, 1, {}, <<>>, 0, fail)

(***************************************************************************)
(* Run::emit_to_dir and Run::emit_and_run.  env is what the run meets:     *)
(* dir_exists (the directory is there beforehand), keep (keep_build_dir),  *)
(* mkdir_ok, create_ok, spawn_ok, rm_ok (create_dir_all, File::create,     *)
(* the spawn of the executor and remove_dir_all succeed), fail (as for     *)
(* emit) and status (the executor's exit status).                          *)
(***************************************************************************)
\* What emit_to_dir returns, with the script written and whether the
\* directory exists afterwards.
Written(ok, dir, written) == [ok |-> ok, dir |-> dir, script |-> written]

emit_to_dir(p, env) ==
    IF ~env.dir_exists /\ ~env.mkdir_ok THEN Written(FALSE, FALSE, NotEmitted)
    ELSE IF ~env.create_ok THEN Written(FALSE, TRUE, NotEmitted)
    ELSE LET e == emit(p, env.fail)
         IN  Written(e.kind = "Ok", TRUE, e)

\* The outcome of emit_and_run: what it returned, whether the directory
\* existed beforehand, keep_build_dir, whether the executor was started, with the quiet flag or not and how it exited,
\* whether remove_dir_all was called, whether the directory exists afterwards.
RunResult(kind, dir_before, keep, invoked, quiet, status, removed, dir_after) ==
    [kind |-> kind, dir_before |-> dir_before, keep |-> keep, invoked |-> invoked,
     quiet |-> quiet, status |-> status, removed |-> removed, dir_after |-> dir_after]
NotRun == RunResult("NotCalled", FALSE, FALSE, FALSE, FALSE, "none", FALSE, FALSE)

\* Mutant of emit_and_run: dir.exists() is read after emit_to_dir.
emit_and_run_exists_late(p, env) ==
    IF p.steps = <<>> THEN RunResult("Panic", env.dir_exists, env.keep, FALSE, FALSE, "none", FALSE,
                                     env.dir_exists)
    ELSE
        LET keep == env.keep
            stdout == p.steps[Len(p.steps)].op = stdout_op
            w == emit_to_dir(p, env)
            stale_dir == w.dir
        IN  IF ~w.ok
            THEN RunResult("Err", env.dir_exists, keep, FALSE, FALSE, "none", FALSE, w.dir)
            ELSE IF ~env.spawn_ok
            THEN RunResult("Err", env.dir_exists, keep, FALSE, FALSE, "none", FALSE, TRUE)
            ELSE IF ~keep /\ ~stale_dir
            THEN RunResult(IF env.rm_ok THEN "Ok" ELSE "Err", env.dir_exists, keep, TRUE,
                           stdout, env.status,
                           TRUE, ~env.rm_ok)
            ELSE RunResult("Ok", env.dir_exists, keep, TRUE, stdout, env.status,
                           FALSE, TRUE)

\* Mutant of emit_and_run: the quiet flag follows the first step being the
\* stdin step.
emit_and_run_quiet_stdin(p, env) ==
    IF p.steps = <<>> THEN RunResult("Panic", env.dir_exists, env.keep, FALSE, FALSE, "none", FALSE,
                                     env.dir_exists)
    ELSE
        LET keep == env.keep
            stdout == p.steps[1].op = stdin_op
            stale_dir == env.dir_exists
            w == emit_to_dir(p, env)
        IN  IF ~w.ok
            THEN RunResult("Err", env.dir_exists, keep, FALSE, FALSE, "none", FALSE, w.dir)
            ELSE IF ~env.spawn_ok
            THEN RunResult("Err", env.dir_exists, keep, FALSE, FALSE, "none", FALSE, TRUE)
            ELSE IF ~keep /\ ~stale_dir
            THEN RunResult(IF env.rm_ok THEN "Ok" ELSE "Err", env.dir_exists, keep, TRUE,
                           stdout, env.status,
                           TRUE, ~env.rm_ok)
            ELSE RunResult("Ok", env.dir_exists, keep, TRUE, stdout, env.status,
                           FALSE, TRUE)

\* Mutant of emit_and_run: the result of emit_to_dir is dropped, the executor
\* is started whatever was written.
emit_and_run_ignore_emit(p, env) ==
    IF p.steps = <<>> THEN RunResult("Panic", env.dir_exists, env.keep, FALSE, FALSE, "none",
                                     FALSE, env.dir_exists)
    ELSE
        LET keep == env.keep
            stdout == p.steps[Len(p.steps)].op = stdout_op
            stale_dir == env.dir_exists
            w == emit_to_dir(p, env)
        IN  IF ~env.spawn_ok
            THEN RunResult("Err", env.dir_exists, keep, FALSE, FALSE, "none", FALSE, w.dir)
            ELSE IF ~keep /\ ~stale_dir
            THEN RunResult(IF env.rm_ok THEN "Ok" ELSE "Err", env.dir_exists, keep, TRUE,
                           stdout, env.status, TRUE, ~env.rm_ok)
            ELSE RunResult("Ok", env.dir_exists, keep, TRUE, stdout, env.status,
                           FALSE, w.dir)

\* `steps.last().unwrap()` panics on a plan without steps; `cmd.status()?`
\* returns Err only when the executor cannot be started: its exit status is
\* not read.
emit_and_run(p, env) ==
    IF p.steps = <<>> THEN RunResult("Panic", env.dir_exists, env.keep, FALSE, FALSE, "none", FALSE,
                                     env.dir_exists)
    ELSE
        LET keep == env.keep
            stdout == p.steps[Len(p.steps)].op = stdout_op
            stale_dir == env.dir_exists
            w == emit_to_dir(p, env)
        IN  IF ~w.ok
            THEN RunResult("Err", env.dir_exists, keep, FALSE, FALSE, "none", FALSE, w.dir)
            ELSE IF ~env.spawn_ok
            THEN RunResult("Err", env.dir_exists, keep, FALSE, FALSE, "none", FALSE, TRUE)
            ELSE IF ~keep /\ ~stale_dir
            THEN RunResult(IF env.rm_ok THEN "Ok" ELSE "Err", env.dir_exists, keep, TRUE,
                           stdout, env.status,
                           TRUE, ~env.rm_ok)
            ELSE RunResult("Ok", env.dir_exists, keep, TRUE, stdout, env.status,
                           FALSE, TRUE)

\* A relative_path call: the version called ("" before the call), its
\* arguments and what it returned.
RelCall(called, p, base, out) == [called |-> called, path |-> p, base |-> base, out |-> out]
NotCalled == RelCall("", <<>>, <<>>, None)

(***************************************************************************)
(* Driver::get_state and Driver::get_op: the first entry with the name, 0  *)
(* for None.                                                               *)
(***************************************************************************)
\* Mutant of get_state: the last entry with the name.
get_state_last(name) ==
    IF \E h \in StateRefs : states[h].name = name
    THEN CHOOSE h \in StateRefs :
             /\ states[h].name = name
             /\ \A g \in StateRefs : g > h => states[g].name # name
    ELSE 0

get_state(name) ==
    IF \E h \in StateRefs : states[h].name = name
    THEN CHOOSE h \in StateRefs :
             /\ states[h].name = name
             /\ \A g \in 1..(h - 1) : states[g].name # name
    ELSE 0

\* Utf8Path::extension: the part after the last dot of the file name, ""
\* standing for None (no file name, no dot, or only a leading dot).
extension(p) ==
    IF p = <<>> \/ p[Len(p)] \in {RootDir, CurDir, ParentDir} THEN ""
    ELSE LET name == p[Len(p)]
         IN  IF Len(name) = 1 \/ (Len(name) = 2 /\ name[1] = "") THEN ""
             ELSE name[Len(name)]

ext_matches(st, ext) == \E i \in 1..Len(states[st].extensions) : states[st].extensions[i] = ext

guess_state(p) ==
    IF extension(p) = "" THEN 0
    ELSE IF \E h \in StateRefs : ext_matches(h, extension(p))
    THEN CHOOSE h \in StateRefs :
             /\ ext_matches(h, extension(p))
             /\ \A g \in 1..(h - 1) : ~ext_matches(g, extension(p))
    ELSE 0

get_op(name) ==
    IF \E o \in OpRefs : ops[o].name = name
    THEN CHOOSE o \in OpRefs :
             /\ ops[o].name = name
             /\ \A g \in 1..(o - 1) : ops[g].name # name
    ELSE 0

\* A lookup: the function called ("" before the call), the name asked for
\* and the handle returned.
Lookup(called, name, ref) == [called |-> called, name |-> name, ref |-> ref]
NotLooked == Lookup("", "", 0)

(***************************************************************************)
(* Emitter::config_val and Emitter::config_or.  The configuration is the   *)
(* set of its entries [key, type, text], one per key at most;              *)
(* extract_inner::<String> succeeds on a key that is present with a value  *)
(* of type "string".                                                       *)
(***************************************************************************)
extract_inner(config, key) ==
    IF \E e \in config : e.key = key /\ e.type = "string"
    THEN [ok |-> TRUE, text |-> (CHOOSE e \in config : e.key = key).text]
    ELSE [ok |-> FALSE, text |-> ""]

\* A lookup: the function called ("" before the call), the configuration,
\* the key and default asked for, how the call ended ("Value", or "Panic"
\* with the message, or "Err" with the key) and the string returned.
Got(called, config, key, default, kind, text) ==
    [called |-> called, config |-> config, key |-> key, default |-> default,
     kind |-> kind, text |-> text]
NotGot == Got("", {}, "", "", "NotCalled", "")

\* `.expect("missing config key")`: a panic, not an Err.
config_val(config, key) ==
    LET e == extract_inner(config, key)
    IN  IF e.ok THEN Got("config_val", config, key, "", "Value", e.text)
        ELSE Got("config_val", config, key, "", "Panic", "missing config key")

config_or(config, key, default) ==
    LET e == extract_inner(config, key)
    IN  Got("config_or", config, key, default, "Value", IF e.ok THEN e.text ELSE default)

(***************************************************************************)
(* Run::show_dot.  What is printed: one node per state and one edge per    *)
(* operation, in handle order, without the state and the operations that   *)
(* builtin_ops added.                                                      *)
(***************************************************************************)
\* The inserts into the `states` HashMap, in order: the input state of the
\* first step's operation with plan.start, then each step's output state
\* with the step's file.
DotInserts(p) ==
    <<[state |-> ops[p.steps[1].op].input, file |-> p.start]>>
        \o [i \in 1..Len(p.steps) |->
               [state |-> ops[p.steps[i].op].output, file |-> p.steps[i].file]]

\* states.get(st): the file of the last insert for st.
DotFile(ins, st) ==
    ins[CHOOSE i \in 1..Len(ins) :
            /\ ins[i].state = st
            /\ \A j \in (i + 1)..Len(ins) : ins[j].state # st].file

\* The handles in S in increasing order.
RECURSIVE InOrder(_)
InOrder(S) ==
    IF S = {} THEN <<>>
    ELSE LET least == CHOOSE x \in S : \A y \in S : x <= y
         IN  <<least>> \o InOrder(S \ {least})

Node(st, highlighted, file) ==
    [state |-> st, name |-> states[st].name, highlighted |-> highlighted, file |-> file]
Edge(o, emphasised) ==
    [op |-> o, input |-> ops[o].input, output |-> ops[o].output, name |-> ops[o].name,
     emphasised |-> emphasised]

Shown(kind, nodes, edges) == [kind |-> kind, nodes |-> nodes, edges |-> edges]
NotShown == Shown("NotCalled", <<>>, <<>>)

\* `self.plan.steps[0]` panics on a plan without steps.
show_dot(p) ==
    IF p.steps = <<>> THEN Shown("Panic", <<>>, <<>>)
    ELSE
        LET ins == DotInserts(p)
            keys == {ins[i].state : i \in 1..Len(ins)}
            used == {p.steps[i].op : i \in 1..Len(p.steps)}
            shown_states == InOrder({st \in StateRefs : st # ops[stdin_op].input})
            shown_ops == InOrder({o \in OpRefs : o # stdin_op /\ o # stdout_op})
        IN  Shown("Ok",
                  [i \in 1..Len(shown_states) |->
                      IF shown_states[i] \in keys
                      THEN Node(shown_states[i], TRUE, DotFile(ins, shown_states[i]))
                      ELSE Node(shown_states[i], FALSE, <<>>)],
                  [i \in 1..Len(shown_ops) |-> Edge(shown_ops[i], shown_ops[i] \in used)])

(***************************************************************************)
(* Driver::find_path and Driver::find_path_segment, one loop iteration at  *)
(* a time.  `srch` holds the locals of both functions and the position in  *)
(* the code: "while" is the head of the loop at line 128, "for" the head   *)
(* of the loop at line 137 before operation k, "walk" the head of the loop *)
(* at line 160, "done" the return of find_path.                            *)
(***************************************************************************)
Searching(pc, start, end, through, seg, cur_state, acc, dest, queue, visited, breadcrumbs, cur, k, op_path, enq, result) ==
    [pc |-> pc, start |-> start, end |-> end, through |-> through, seg |-> seg,
     cur_state |-> cur_state, acc |-> acc, dest |-> dest, queue |-> queue,
     visited |-> visited, breadcrumbs |-> breadcrumbs, cur |-> cur, k |-> k,
     op_path |-> op_path, enq |-> enq, result |-> result]

NotSearching ==
    Searching("idle", 0, 0, <<>>, 0, 0, <<>>, DestState(0), <<>>, {}, <<>>, 0, 0, <<>>,
              <<>>, None)

\* Lines 187 and 193 with lines 120-127: the call of find_path_segment for
\* segment i, from cur_state.  enq counts how often each state was put on
\* state_queue in this segment.
BeginSegment(s, cur_state, i) ==
    [s EXCEPT !.pc = "while",
              !.seg = i,
              !.cur_state = cur_state,
              !.dest = IF i > Len(s.through) THEN DestState(s.end)
                       ELSE DestOp(s.through[i]),
              !.queue = <<cur_state>>,
              !.visited = {cur_state},
              !.breadcrumbs = [x \in StateRefs |-> 0],
              !.cur = 0,
              !.k = 0,
              !.op_path = <<>>,
              !.enq = [x \in StateRefs |-> IF x = cur_state THEN 1 ELSE 0]]

\* Lines 152-159: the start of the walk back.
BeginWalk(s) ==
    IF s.dest.kind = "State"
    THEN [s EXCEPT !.pc = "walk", !.cur = s.dest.ref, !.op_path = <<>>]
    ELSE [s EXCEPT !.pc = "walk", !.cur = ops[s.dest.ref].input,
                   !.op_path = <<s.dest.ref>>]

\* The entry of find_path, lines 182-183, up to the first segment's loop.
Search_call(start, end, through) ==
    /\ built
    /\ srch.pc = "idle"
    /\ srch' = BeginSegment([NotSearching EXCEPT !.start = start, !.end = end,
                                                 !.through = through],
                            start, 1)
    /\ UNCHANGED <<states, setups, ops, built, stdin_op, stdout_op, req, path, planned,
                   script, ran, rel, looked, got, dot>>

\* Mutant of Search_while: the head of the queue is read but not removed.
Search_while_no_pop ==
    /\ srch.pc = "while"
    /\ srch' = IF srch.queue = <<>> THEN BeginWalk(srch)
               ELSE LET cur == Head(srch.queue)
                    IN  IF srch.dest = DestState(cur) THEN BeginWalk(srch)
                        ELSE [srch EXCEPT !.pc = "for", !.cur = cur, !.k = 1]
    /\ UNCHANGED <<states, setups, ops, built, stdin_op, stdout_op, req, path, planned,
                   script, ran, rel, looked, got, dot>>

\* Lines 128-134: one test of the while loop, the removal of the head of
\* the queue and the test for the goal state.
Search_while ==
    /\ srch.pc = "while"
    /\ srch' = IF srch.queue = <<>> THEN BeginWalk(srch)
               ELSE LET cur == Head(srch.queue)
                        popped == [srch EXCEPT !.queue = Tail(srch.queue)]
                    IN  IF srch.dest = DestState(cur) THEN BeginWalk(popped)
                        ELSE [popped EXCEPT !.pc = "for", !.cur = cur, !.k = 1]
    /\ UNCHANGED <<states, setups, ops, built, stdin_op, stdout_op, req, path, planned,
                   script, ran, rel, looked, got, dot>>

\* Lines 137-148: one iteration of the for loop, for operation k.
Search_for ==
    /\ srch.pc = "for"
    /\ srch' = IF srch.k > Len(ops) THEN [srch EXCEPT !.pc = "while"]
               ELSE LET o == ops[srch.k]
                        take == o.input = srch.cur /\ o.output \notin srch.visited
                        nxt == IF take
                               THEN [srch EXCEPT
                                        !.queue = Append(srch.queue, o.output),
                                        !.visited = srch.visited \cup {o.output},
                                        !.breadcrumbs[o.output] = srch.k,
                                        !.enq[o.output] = srch.enq[o.output] + 1]
                               ELSE srch
                    IN  IF srch.dest = DestOp(srch.k)
                        THEN [nxt EXCEPT !.pc = "while"]
                        ELSE [nxt EXCEPT !.k = srch.k + 1]
    /\ UNCHANGED <<states, setups, ops, built, stdin_op, stdout_op, req, path, planned,
                   script, ran, rel, looked, got, dot>>

\* Lines 160-171: one iteration of the walk back; at its end the segment is
\* returned to find_path (lines 187-190 and 193-196), which starts the next
\* segment or returns.
Search_walk ==
    /\ srch.pc = "walk"
    /\ srch' = IF srch.cur = srch.cur_state
               THEN LET op_path == srch.acc \o Reverse(srch.op_path)
                    IN  IF srch.seg > Len(srch.through)
                        THEN [srch EXCEPT !.pc = "done", !.acc = op_path,
                                          !.result = Some(op_path)]
                        ELSE BeginSegment([srch EXCEPT !.acc = op_path],
                                          ops[srch.through[srch.seg]].output,
                                          srch.seg + 1)
               ELSE IF srch.breadcrumbs[srch.cur] = 0
               THEN [srch EXCEPT !.pc = "done", !.result = None]
               ELSE [srch EXCEPT
                        !.op_path = Append(srch.op_path, srch.breadcrumbs[srch.cur]),
                        !.cur = ops[srch.breadcrumbs[srch.cur]].input]
    /\ UNCHANGED <<states, setups, ops, built, stdin_op, stdout_op, req, path, planned,
                   script, ran, rel, looked, got, dot>>

(***************************************************************************)
(* DriverBuilder                                                           *)
(***************************************************************************)
NoReq == [start_state |-> 0, end_state |-> 0, start_file |-> None, end_file |-> None,
          through |-> <<>>, workdir |-> <<>>]

Request(start_state, end_state, start_file, end_file, through, workdir) ==
    [start_state |-> start_state, end_state |-> end_state, start_file |-> start_file,
     end_file |-> end_file, through |-> through, workdir |-> workdir]

Init ==
    /\ states = <<>>
    /\ setups = <<>>
    /\ ops = <<>>
    /\ built = FALSE
    /\ stdin_op = 0
    /\ stdout_op = 0
    /\ req = NoReq
    /\ path = None
    /\ planned = NotPlanned
    /\ script = NotEmitted
    /\ ran = NotRun
    /\ rel = NotCalled
    /\ looked = NotLooked
    /\ got = NotGot
    /\ dot = NotShown
    /\ srch = NotSearching

state(name, extensions) ==
    /\ ~built
    /\ Len(states) < MaxStates
    /\ states' = Append(states, [name |-> name, extensions |-> extensions])
    /\ UNCHANGED <<setups, ops, built, stdin_op, stdout_op, req, path, planned, script,
                   ran, rel, looked, got, dot, srch>>

add_setup(name) ==
    /\ ~built
    /\ Len(setups) < MaxSetups
    /\ setups' = Append(setups, [name |-> name])
    /\ UNCHANGED <<states, ops, built, stdin_op, stdout_op, req, path, planned, script,
                   ran, rel, looked, got, dot, srch>>

add_op(name, op_setups, input, output) ==
    /\ ~built
    /\ Len(ops) < MaxOps
    /\ ops' = Append(ops, [name |-> name, input |-> input, output |-> output,
                           setups |-> op_setups])
    /\ UNCHANGED <<states, setups, built, stdin_op, stdout_op, req, path, planned, script,
                   ran, rel, looked, got, dot, srch>>

\* Mutant of build: the stdin operation leads from the null state into the
\* first state of the catalog.
build_stdin_enters ==
    /\ ~built
    /\ LET null_state == Len(states) + 1
           stdin_setup == Len(setups) + 1
           stdout_setup == Len(setups) + 2
       IN  /\ states' = Append(states, [name |-> "null", extensions |-> <<>>])
           /\ setups' = setups \o <<[name |-> "stdin"], [name |-> "stdout"]>>
           /\ ops' = ops \o
                  <<[name |-> "stdin", input |-> null_state, output |-> 1,
                     setups |-> <<stdin_setup>>],
                    [name |-> "show", input |-> null_state, output |-> null_state,
                     setups |-> <<stdout_setup>>]>>
           /\ stdin_op' = Len(ops) + 1
           /\ stdout_op' = Len(ops) + 2
    /\ built' = TRUE
    /\ UNCHANGED <<req, path, planned, script, ran, rel, looked, got, dot, srch>>

\* build() with builtin_ops(): the null state, the stdin setup and operation,
\* the stdout setup and operation are registered last, in this order.
build ==
    /\ ~built
    /\ LET null_state == Len(states) + 1
           stdin_setup == Len(setups) + 1
           stdout_setup == Len(setups) + 2
       IN  /\ states' = Append(states, [name |-> "null", extensions |-> <<>>])
           /\ setups' = setups \o <<[name |-> "stdin"], [name |-> "stdout"]>>
           /\ ops' = ops \o
                  <<[name |-> "stdin", input |-> null_state, output |-> null_state,
                     setups |-> <<stdin_setup>>],
                    [name |-> "show", input |-> null_state, output |-> null_state,
                     setups |-> <<stdout_setup>>]>>
           /\ stdin_op' = Len(ops) + 1
           /\ stdout_op' = Len(ops) + 2
    /\ built' = TRUE
    /\ UNCHANGED <<req, path, planned, script,
                   ran, rel, looked, got, dot, srch>>

\* One request per run, as in cli(): the Driver is immutable, a second call
\* would see the same catalog.
Call_find_path(start, end, through) ==
    /\ built
    /\ req = NoReq
    /\ req' = Request(start, end, None, None, through, <<>>)
    /\ path' = find_path(start, end, through)
    /\ UNCHANGED <<states, setups, ops, built, stdin_op, stdout_op, planned, script,
                   ran, rel, looked, got, dot, srch>>

\* Driver::plan, with the path found at line 208 kept in `path`.
Call_plan(r, fs_ok) ==
    /\ built
    /\ req = NoReq
    /\ req' = r
    /\ path' = find_path(r.start_state, r.end_state, r.through)
    /\ planned' = plan(r, fs_ok)
    /\ UNCHANGED <<states, setups, ops, built, stdin_op, stdout_op, script,
                   ran, rel, looked, got, dot, srch>>

\* Run::emit on the plan (emit_to_stdout); a Run is consumed by its emission.
Call_emit(fail) ==
    /\ planned.kind = "Plan"
    /\ script = NotEmitted
    /\ fail <= emit(planned, 0).calls
    /\ script' = emit(planned, fail)
    /\ UNCHANGED <<states, setups, ops, built, stdin_op, stdout_op, req, path, planned,
                   ran, rel, looked, got, dot, srch>>

\* Run::emit_and_run on the plan; the script is what emit_to_dir wrote.
Call_emit_and_run(env) ==
    /\ planned.kind = "Plan"
    /\ script = NotEmitted
    /\ ran = NotRun
    /\ env.fail <= emit(planned, 0).calls
    /\ ran' = emit_and_run(planned, env)
    /\ script' = IF planned.steps = <<>> THEN script ELSE emit_to_dir(planned, env).script
    /\ UNCHANGED <<states, setups, ops, built, stdin_op, stdout_op, req, path, planned,
                   rel, looked, got, dot, srch>>

\* relative_path (src/fake/src/driver.rs) on the arguments held in rel.
Call_relative_path(fs_ok) ==
    /\ rel.called = ""
    /\ rel' = RelCall("relative_path", rel.path, rel.base,
                      relative_path(rel.path, rel.base, fs_ok))
    /\ UNCHANGED <<states, setups, ops, built, stdin_op, stdout_op, req, path, planned,
                   script, ran, looked, got, dot, srch>>

\* relative_path (src/src/cli.rs) on the arguments held in rel.
Call_relative_path_cli(fs_ok) ==
    /\ rel.called = ""
    /\ rel' = RelCall("relative_path_cli", rel.path, rel.base,
                      relative_path_cli(rel.path, rel.base, fs_ok))
    /\ UNCHANGED <<states, setups, ops, built, stdin_op, stdout_op, req, path, planned,
                   script, ran, looked, got, dot, srch>>

Call_get_state(name) ==
    /\ built
    /\ looked = NotLooked
    /\ looked' = Lookup("get_state", name, get_state(name))
    /\ UNCHANGED <<states, setups, ops, built, stdin_op, stdout_op, req, path, planned,
                   script, ran, rel, got, dot, srch>>

Call_get_op(name) ==
    /\ built
    /\ looked = NotLooked
    /\ looked' = Lookup("get_op", name, get_op(name))
    /\ UNCHANGED <<states, setups, ops, built, stdin_op, stdout_op, req, path, planned,
                   script, ran, rel, got, dot, srch>>

\* guess_state on a path; looked.name is the extension of the path.
Call_guess_state(p) ==
    /\ built
    /\ looked = NotLooked
    /\ looked' = Lookup("guess_state", extension(p), guess_state(p))
    /\ UNCHANGED <<states, setups, ops, built, stdin_op, stdout_op, req, path, planned,
                   script, ran, rel, got, dot, srch>>

\* Emitter::config_val on the configuration held in got.
Call_config_val(key) ==
    /\ got.called = ""
    /\ got' = config_val(got.config, key)
    /\ UNCHANGED <<states, setups, ops, built, stdin_op, stdout_op, req, path, planned,
                   script, ran, rel, looked, dot, srch>>

\* Emitter::config_or on the configuration held in got.
Call_config_or(key, default) ==
    /\ got.called = ""
    /\ got' = config_or(got.config, key, default)
    /\ UNCHANGED <<states, setups, ops, built, stdin_op, stdout_op, req, path, planned,
                   script, ran, rel, looked, dot, srch>>

\* Run::show_dot on the plan.
Call_show_dot ==
    /\ planned.kind = "Plan"
    /\ dot = NotShown
    /\ dot' = show_dot(planned)
    /\ UNCHANGED <<states, setups, ops, built, stdin_op, stdout_op, req, path, planned,
                   script, ran, rel, looked, got, srch>>

\* The names a catalog author gives, by order of registration.
StateNames == <<"A", "B", "C", "D", "E">>
StateExts == <<"a", "b", "c", "d", "e">>
OpNames == <<"p", "q", "r", "s", "t">>
SetupNames == {"S", "T"}

(***************************************************************************)
(* The planner alone: catalogs of every shape, with the state names,       *)
(* extensions and setups the search does not read held fixed.              *)
(***************************************************************************)
Next ==
    \/ state(StateNames[Len(states) + 1], <<StateExts[Len(states) + 1]>>)
    \/ \E i, o \in StateRefs : add_op(OpNames[Len(ops) + 1], <<>>, i, o)
    \/ build
    \/ \E s, e \in StateRefs : \E t \in SeqsUpTo(OpRefs, MaxThrough) :
           Call_find_path(s, e, t)

Spec == Init /\ [][Next]_vars

(***************************************************************************)
(* The planner on requests without waypoints: the same catalogs, one       *)
(* search from the start state to the end state.                           *)
(***************************************************************************)
NextDirect ==
    \/ state(StateNames[Len(states) + 1], <<StateExts[Len(states) + 1]>>)
    \/ \E i, o \in StateRefs : add_op(OpNames[Len(ops) + 1], <<>>, i, o)
    \/ build
    \/ \E s, e \in StateRefs : Call_find_path(s, e, <<>>)

SpecDirect == Init /\ [][NextDirect]_vars

(***************************************************************************)
(* Planning and emission: smaller catalogs whose operations list setups,   *)
(* requests with and without files, emissions with and without a failing   *)
(* callback.                                                               *)
(***************************************************************************)
RunMaxStates == 2    \* states registered by the user
RunMaxOps == 2       \* operations registered by the user
RunMaxThrough == 1   \* waypoints in a request

StartFiles == {None, Some(<<<<"foo", "a">>>>)}
EndFiles == {None, Some(<<<<"out", "b">>>>)}

NextRun ==
    \/ /\ Len(states) < RunMaxStates
       /\ state(StateNames[Len(states) + 1], <<StateExts[Len(states) + 1]>>)
    \/ \E n \in SetupNames : add_setup(n)
    \/ /\ Len(ops) < RunMaxOps
       /\ \E i, o \in StateRefs : \E ss \in SeqsUpTo(SetupRefs, MaxSetupRefs) :
              add_op(OpNames[Len(ops) + 1], ss, i, o)
    \/ build
    \/ \E s, e \in StateRefs : \E t \in SeqsUpTo(OpRefs, RunMaxThrough) :
       \E sf \in StartFiles : \E ef \in EndFiles :
           Call_plan(Request(s, e, sf, ef, t, <<CurDir>>), TRUE)
    \/ \E fail \in 0..emit(planned, 0).calls : Call_emit(fail)

SpecRun == Init /\ [][NextRun]_vars

(***************************************************************************)
(* Planning alone: requests with at most one waypoint, from stdin or from  *)
(* a file in a subdirectory, to stdout or to a file, built in the          *)
(* invocation directory or in a directory below it.                        *)
(***************************************************************************)
PlanStartFiles == {None, Some(<<<<"src">>, <<"foo", "a">>>>)}
PlanEndFiles == {None, Some(<<<<"out", "b">>>>)}
Workdirs == {<<CurDir>>, <<<<"build">>>>}

NextPlan ==
    \/ /\ Len(states) < RunMaxStates
       /\ state(StateNames[Len(states) + 1], <<StateExts[Len(states) + 1]>>)
    \/ /\ Len(ops) < RunMaxOps
       /\ \E i, o \in StateRefs : add_op(OpNames[Len(ops) + 1], <<>>, i, o)
    \/ build
    \/ \E s, e \in StateRefs : \E t \in {<<>>} \cup {<<o>> : o \in OpRefs} :
       \E sf \in PlanStartFiles : \E ef \in PlanEndFiles : \E wd \in Workdirs :
           Call_plan(Request(s, e, sf, ef, t, wd), TRUE)

SpecPlan == Init /\ [][NextPlan]_vars

(***************************************************************************)
(* Run mode: a plan without waypoints is emitted into the default working  *)
(* directory `.fake` and the executor is started there, whatever the       *)
(* directory, the configuration, the file system and the executor do.      *)
(***************************************************************************)
FakeDir == <<<<"", "fake">>>>

Envs(fails) ==
    [dir_exists : BOOLEAN, keep : BOOLEAN, mkdir_ok : BOOLEAN, create_ok : BOOLEAN,
     fail : fails, spawn_ok : BOOLEAN, status : {"success", "failure"}, rm_ok : BOOLEAN]

NextExec ==
    \/ /\ Len(states) < RunMaxStates
       /\ state(StateNames[Len(states) + 1], <<StateExts[Len(states) + 1]>>)
    \/ /\ Len(ops) < RunMaxOps
       /\ \E i, o \in StateRefs : add_op(OpNames[Len(ops) + 1], <<>>, i, o)
    \/ build
    \/ \E s, e \in StateRefs : \E sf \in StartFiles : \E ef \in EndFiles :
           Call_plan(Request(s, e, sf, ef, <<>>, FakeDir), TRUE)
    \/ \E env \in Envs(0..emit(planned, 0).calls) : Call_emit_and_run(env)

SpecExec == Init /\ [][NextExec]_vars

(***************************************************************************)
(* Lookup by name: catalogs whose author picks the names freely, the       *)
(* names the driver uses itself included.                                  *)
(***************************************************************************)
NamesMaxStates == 2   \* states registered by the user
NamesMaxOps == 2      \* operations registered by the user

UserStateNames == {"A", "B", "null"}
UserOpNames == {"p", "stdin", "show"}

NextNames ==
    \/ /\ Len(states) < NamesMaxStates
       /\ \E n \in UserStateNames : state(n, <<StateExts[Len(states) + 1]>>)
    \/ /\ Len(ops) < NamesMaxOps
       /\ \E n \in UserOpNames : \E i, o \in StateRefs : add_op(n, <<>>, i, o)
    \/ build
    \/ \E n \in UserStateNames : Call_get_state(n)
    \/ \E n \in UserOpNames : Call_get_op(n)

SpecNames == Init /\ [][NextNames]_vars

(***************************************************************************)
(* relative_path alone: every path and base of up to MaxPathLen components *)
(* after an optional `/` or `.`, over two names and `..`.                  *)
(***************************************************************************)
MaxPathLen == 2

PathNames == {<<"build">>, <<"foo", "a">>}

Paths ==
    {pre \o body : pre \in {<<>>, <<CurDir>>, <<RootDir>>},
                   body \in SeqsUpTo(PathNames \cup {ParentDir}, MaxPathLen)} \ {<<>>}

InitPath ==
    /\ states = <<>>
    /\ setups = <<>>
    /\ ops = <<>>
    /\ built = FALSE
    /\ stdin_op = 0
    /\ stdout_op = 0
    /\ req = NoReq
    /\ path = None
    /\ planned = NotPlanned
    /\ script = NotEmitted
    /\ ran = NotRun
    /\ looked = NotLooked
    /\ got = NotGot
    /\ dot = NotShown
    /\ srch = NotSearching
    /\ \E p \in Paths : \E b \in Paths : rel = RelCall("", p, b, None)

NextPath ==
    \/ \E fs_ok \in BOOLEAN : Call_relative_path(fs_ok)
    \/ \E fs_ok \in BOOLEAN : Call_relative_path_cli(fs_ok)

SpecPath == InitPath /\ [][NextPath]_vars

(***************************************************************************)
(* Planning from start files whose names carry one dot or two.             *)
(***************************************************************************)
StemStartFiles ==
    {None, Some(<<<<"foo", "a">>>>), Some(<<<<"foo", "tar", "a">>>>)}

NextStem ==
    \/ /\ Len(states) < RunMaxStates
       /\ state(StateNames[Len(states) + 1], <<StateExts[Len(states) + 1]>>)
    \/ /\ Len(ops) < RunMaxOps
       /\ \E i, o \in StateRefs : add_op(OpNames[Len(ops) + 1], <<>>, i, o)
    \/ build
    \/ \E s, e \in StateRefs : \E sf \in StemStartFiles : \E ef \in PlanEndFiles :
       \E wd \in Workdirs :
           Call_plan(Request(s, e, sf, ef, <<>>, wd), TRUE)

SpecStem == Init /\ [][NextStem]_vars

(***************************************************************************)
(* Configuration lookups alone: every configuration over three keys, each  *)
(* absent, a string or an integer.                                         *)
(***************************************************************************)
ConfigKeys == {"data", "python", "sim.data"}
ConfigValues == {[type |-> "string", text |-> "x"], [type |-> "integer", text |-> "7"]}
ConfigDefaults == {"python3", "x"}

Configs ==
    {{[key |-> k, type |-> f[k].type, text |-> f[k].text] : k \in DOMAIN f} :
        f \in UNION {[K -> ConfigValues] : K \in SUBSET ConfigKeys}}

InitConfig ==
    /\ states = <<>>
    /\ setups = <<>>
    /\ ops = <<>>
    /\ built = FALSE
    /\ stdin_op = 0
    /\ stdout_op = 0
    /\ req = NoReq
    /\ path = None
    /\ planned = NotPlanned
    /\ script = NotEmitted
    /\ ran = NotRun
    /\ rel = NotCalled
    /\ looked = NotLooked
    /\ dot = NotShown
    /\ srch = NotSearching
    /\ \E c \in Configs : got = Got("", c, "", "", "NotCalled", "")

NextConfig ==
    \/ \E k \in ConfigKeys : Call_config_val(k)
    \/ \E k \in ConfigKeys : \E d \in ConfigDefaults : Call_config_or(k, d)

SpecConfig == InitConfig /\ [][NextConfig]_vars

(***************************************************************************)
(* Graph mode: a plan without waypoints, rendered.                         *)
(***************************************************************************)
NextDot ==
    \/ /\ Len(states) < RunMaxStates
       /\ state(StateNames[Len(states) + 1], <<StateExts[Len(states) + 1]>>)
    \/ /\ Len(ops) < RunMaxOps
       /\ \E i, o \in StateRefs : add_op(OpNames[Len(ops) + 1], <<>>, i, o)
    \/ build
    \/ \E s, e \in StateRefs : \E sf \in StartFiles : \E ef \in EndFiles :
           Call_plan(Request(s, e, sf, ef, <<>>, <<CurDir>>), TRUE)
    \/ Call_show_dot

SpecDot == Init /\ [][NextDot]_vars

(***************************************************************************)
(* Lookups among entries that share names and extensions: the operations   *)
(* all lead from the first state to the last.                              *)
(***************************************************************************)
LookupStateNames == {"A", "B"}
LookupExtensions == {<<>>, <<"a">>, <<"b", "a">>}
LookupOpNames == {"p", "q"}
LookupPaths == {<<<<"foo", "a">>>>, <<<<"foo", "b">>>>, <<<<"foo", "c">>>>, <<<<"foo">>>>}

NextLookup ==
    \/ /\ Len(states) < NamesMaxStates
       /\ \E n \in LookupStateNames : \E x \in LookupExtensions : state(n, x)
    \/ /\ Len(ops) < NamesMaxOps
       /\ states # <<>>
       /\ \E n \in LookupOpNames : add_op(n, <<>>, 1, Len(states))
    \/ build
    \/ \E n \in LookupStateNames \cup {"C"} : Call_get_state(n)
    \/ \E n \in LookupOpNames \cup {"r"} : Call_get_op(n)
    \/ \E p \in LookupPaths : Call_guess_state(p)

SpecLookup == Init /\ [][NextLookup]_vars

(***************************************************************************)
(* The search run step by step on every catalog of up to SearchMaxStates   *)
(* states and SearchMaxOps operations, for every request with at most one  *)
(* waypoint.  The search is sequential code: a loop iteration that can be  *)
(* taken is taken, which is weak fairness of the three step actions.       *)
(***************************************************************************)
SearchMaxStates == 2   \* states registered by the user
SearchMaxOps == 2      \* operations registered by the user

Search_step == Search_while \/ Search_for \/ Search_walk

NextSearch ==
    \/ /\ Len(states) < SearchMaxStates
       /\ state(StateNames[Len(states) + 1], <<StateExts[Len(states) + 1]>>)
    \/ /\ Len(ops) < SearchMaxOps
       /\ \E i, o \in StateRefs : add_op(OpNames[Len(ops) + 1], <<>>, i, o)
    \/ build
    \/ \E s, e \in StateRefs : \E t \in {<<>>} \cup {<<o>> : o \in OpRefs} :
           Search_call(s, e, t)
    \/ Search_while
    \/ Search_for
    \/ Search_walk

SpecSearch == Init /\ [][NextSearch]_vars /\ WF_vars(Search_step)

(***************************************************************************)
(* The catalog graph, stated without the search: what the claims compare   *)
(* find_path against.                                                      *)
(***************************************************************************)
\* One hop along any operation.
Step(S) == S \cup {ops[k].output : k \in {j \in OpRefs : ops[j].input \in S}}

RECURSIVE ReachWithin(_, _)
ReachWithin(S, n) == IF n = 0 THEN S ELSE ReachWithin(Step(S), n - 1)

Reachable(s, t) == t \in ReachWithin({s}, Len(states))

\* The least number of hops from s to t (for t reachable from s).
Dist(s, t) ==
    CHOOSE n \in 0..Len(states) :
        /\ t \in ReachWithin({s}, n)
        /\ \A m \in 0..(n - 1) : t \notin ReachWithin({s}, m)

\* c is a connected chain of operations leading from state s to state t.
IsChain(c, s, t) ==
    IF c = <<>> THEN s = t
    ELSE /\ ops[c[1]].input = s
         /\ \A i \in 1..(Len(c) - 1) : ops[c[i]].output = ops[c[i + 1]].input
         /\ ops[c[Len(c)]].output = t

\* Every segment of the request has a chain: start to the input of the first
\* waypoint, each waypoint's output to the next one's input, the last
\* waypoint's output to the end state.
SegmentsReachable(r) ==
    LET t == r.through
        n == Len(t)
    IN  IF n = 0 THEN Reachable(r.start_state, r.end_state)
        ELSE /\ Reachable(r.start_state, ops[t[1]].input)
             /\ \A i \in 1..(n - 1) : Reachable(ops[t[i]].output, ops[t[i + 1]].input)
             /\ Reachable(ops[t[n]].output, r.end_state)

\* a is a subsequence of b, in order.
RECURSIVE IsSubseq(_, _)
IsSubseq(a, b) ==
    IF a = <<>> THEN TRUE
    ELSE IF b = <<>> THEN FALSE
    ELSE IF a[1] = b[1] THEN IsSubseq(Tail(a), Tail(b))
    ELSE IsSubseq(a, Tail(b))

Called == req # NoReq

\* The request r with each choice of start file and end file.
WithFiles(r) ==
    {[r EXCEPT !.start_file = sf, !.end_file = ef, !.workdir = <<CurDir>>] :
        sf \in StartFiles, ef \in EndFiles}

\* The operations of a plan's steps without the synthetic stdin step (first,
\* when the request has no start file) and stdout step (last, when it has no
\* end file).
RealOps(pl, r) ==
    LET all == [i \in 1..Len(pl.steps) |-> pl.steps[i].op]
        from == IF r.start_file.some THEN 1 ELSE 2
        to == IF r.end_file.some THEN Len(all) ELSE Len(all) - 1
    IN  SubSeq(all, from, to)

\* C1: for a request without waypoints whose end state is reachable from its
\* start state, find_path returns a connected chain with the least possible
\* number of operations.
C1_ShortestChain ==
    (Called /\ req.through = <<>> /\ Reachable(req.start_state, req.end_state))
        => /\ path.some
           /\ IsChain(path.val, req.start_state, req.end_state)
           /\ Len(path.val) = Dist(req.start_state, req.end_state)

\* C1 witness: p: A->B, q: B->C, r: A->C, request A->C answered by [r].
C1_Witness ==
    /\ Called /\ req.through = <<>>
    /\ Len(ops) = 5
    /\ ops[1].input = req.start_state /\ ops[1].output = ops[2].input
    /\ ops[2].output = req.end_state
    /\ ops[3].input = req.start_state /\ ops[3].output = req.end_state
    /\ Cardinality({ops[1].input, ops[1].output, ops[2].output}) = 3
    /\ path = Some(<<3>>)

\* C2: whenever every segment of the request has an operation chain,
\* find_path returns a chain (not None), whatever the registration order.
C2_PathWheneverChainExists ==
    (Called /\ SegmentsReachable(req)) => path.some

\* C3: when some segment of the request has no chain, find_path returns None
\* and no partial chain, and so does plan for the same request, with or
\* without files.
C3_NoPathWhenSegmentUnreachable ==
    (Called /\ ~SegmentsReachable(req))
        => /\ path = None
           /\ \A r \in WithFiles(req) : plan(r, TRUE) = NoPath

\* C3 witness: the first waypoint is reached, the end state is not reachable
\* from its output.
C3_Witness ==
    /\ Called /\ Len(req.through) = 1
    /\ req.start_state # ops[req.through[1]].input
    /\ Reachable(req.start_state, ops[req.through[1]].input)
    /\ ~Reachable(ops[req.through[1]].output, req.end_state)
    /\ path = None

\* C4: every returned chain contains the waypoints as a subsequence, in order.
C4_WaypointsInOrder ==
    (Called /\ path.some) => IsSubseq(req.through, path.val)

\* C4 witness: p: A->B, q: B->C, r: A->C, request A->C through [p] answered
\* by [p, q] although [r] is shorter.
C4_Witness ==
    /\ Called /\ req.through = <<1>>
    /\ Len(ops) = 5
    /\ ops[1].input = req.start_state /\ ops[1].output = ops[2].input
    /\ ops[2].output = req.end_state
    /\ ops[3].input = req.start_state /\ ops[3].output = req.end_state
    /\ Cardinality({ops[1].input, ops[1].output, ops[2].output}) = 3
    /\ path = Some(<<1, 2>>)

\* C5: every returned chain is state-connected from the request's start
\* state to its end state, with and without waypoints, and so are the real
\* (non-synthetic) steps of every plan returned for the request.
C5_ChainConnected ==
    (Called /\ path.some)
        => /\ IsChain(path.val, req.start_state, req.end_state)
           /\ \A r \in WithFiles(req) :
                  plan(r, TRUE).kind = "Plan"
                      => IsChain(RealOps(plan(r, TRUE), r), req.start_state, req.end_state)

\* C5 witness: a chain through two waypoints that revisits its start state.
C5_Witness ==
    /\ Called /\ Len(req.through) = 2 /\ path.some
    /\ Len(path.val) >= 3
    /\ \E i \in 1..Len(path.val) : ops[path.val[i]].output = req.start_state

\* The shortest chains from s to t.
ShortestChains(s, t) ==
    {c \in [1..Dist(s, t) -> OpRefs] : IsChain(c, s, t)}

\* a and b have the same length and a uses the lower handle at the first
\* position where they differ.
EarlierAtFirstDifference(a, b) ==
    \E i \in 1..Len(a) :
        /\ \A j \in 1..(i - 1) : a[j] = b[j]
        /\ a[i] < b[i]

\* C6: among several shortest chains from the start state to the end state,
\* find_path returns the one that uses the earlier-registered operation at
\* the first position where it differs from any other.
C6_TieBreakByRegistrationOrder ==
    (Called /\ req.through = <<>> /\ path.some)
        => \A c \in ShortestChains(req.start_state, req.end_state) :
               c # path.val => EarlierAtFirstDifference(path.val, c)

\* C6 witness: two shortest chains of two hops that differ in their first
\* operation.
C6_Witness ==
    /\ Called /\ req.through = <<>> /\ path.some /\ Len(path.val) = 2
    /\ \E c \in ShortestChains(req.start_state, req.end_state) : c[1] # path.val[1]


(***************************************************************************)
(* The emitted script, read back.                                          *)
(***************************************************************************)
Range(f) == {f[i] : i \in DOMAIN f}

\* The setup handles the operations of the plan's steps list.
Referenced(p) == UNION {Range(ops[p.steps[i].op].setups) : i \in 1..Len(p.steps)}

\* The setup references of the plan in (step index, position in the
\* operation's setup list) order.
RECURSIVE RefList(_, _)
RefList(p, i) ==
    IF i > Len(p.steps) THEN <<>>
    ELSE ops[p.steps[i].op].setups \o RefList(p, i + 1)

FirstIndex(seq, x) == CHOOSE i \in 1..Len(seq) : seq[i] = x /\ \A j \in 1..(i - 1) : seq[j] # x

\* The positions of the script at which setup sref's callback is invoked.
SetupCallsOf(out, sref) == {i \in 1..Len(out) : out[i] = SetupCall(sref)}
SetupCalls(out) == {i \in 1..Len(out) : out[i].kind = "setup"}
BuildCalls(out) == {i \in 1..Len(out) : out[i].kind = "build"}

HasEmitted == script # NotEmitted

\* C7: emission invokes each setup callback at most once and, when it
\* completes, the callback of each distinct setup handle referenced by the
\* plan exactly once: as many stanzas as distinct handles referenced.
C7_SetupsOncePerHandle ==
    HasEmitted =>
        /\ \A sref \in SetupRefs : Cardinality(SetupCallsOf(script.out, sref)) <= 1
        /\ \A i \in SetupCalls(script.out) : script.out[i].ref \in Referenced(planned)
        /\ script.kind = "Ok" =>
               /\ \A sref \in Referenced(planned) :
                      Cardinality(SetupCallsOf(script.out, sref)) = 1
               /\ Cardinality(SetupCalls(script.out)) = Cardinality(Referenced(planned))

\* C7 witness: a completed emission of a plan in which one setup is shared by
\* two steps, one operation lists a setup twice, and two setups registered
\* under the same name are both emitted.
C7_Witness ==
    /\ script.kind = "Ok"
    /\ \E i, j \in 1..Len(planned.steps) :
           /\ i # j
           /\ Range(ops[planned.steps[i].op].setups)
                  \cap Range(ops[planned.steps[j].op].setups) # {}
    /\ \E i \in 1..Len(planned.steps) :
           LET ss == ops[planned.steps[i].op].setups
           IN  Len(ss) = 2 /\ ss[1] = ss[2]
    /\ \E a, b \in Referenced(planned) : a # b /\ setups[a].name = setups[b].name

\* C8: setup stanzas are emitted in first-encounter order: of two emitted
\* setups, the one emitted first is the one whose first reference (step
\* index, position in the step's setup list) comes first.
C8_SetupsInFirstEncounterOrder ==
    HasEmitted =>
        \A i, j \in SetupCalls(script.out) :
            i < j <=> FirstIndex(RefList(planned, 1), script.out[i].ref)
                          < FirstIndex(RefList(planned, 1), script.out[j].ref)

\* C8 witness: a completed emission in which a later-registered setup is
\* emitted before an earlier-registered one that is referenced again later.
C8_Witness ==
    /\ script.kind = "Ok"
    /\ \E i, j \in SetupCalls(script.out) :
           /\ i < j
           /\ script.out[i].ref > script.out[j].ref
           /\ Cardinality({k \in 1..Len(RefList(planned, 1)) :
                              RefList(planned, 1)[k] = script.out[i].ref}) >= 2

\* C9: in a script emitted without error every setup stanza precedes the
\* `# build targets` comment, the build callbacks follow it, one per plan
\* step in plan order, and the `default` line is the last line, after all
\* build edges.
C9_ScriptOrder ==
    script.kind = "Ok" =>
        LET out == script.out
            n == Len(planned.steps)
        IN  \E k \in 1..Len(out) :
                /\ out[k] = Comment("build targets")
                /\ \A i \in 1..(k - 1) : out[i].kind \in {"comment", "setup", "blank"}
                /\ \A i \in SetupCalls(out) : i < k
                /\ Len(out) = k + n + 2
                /\ \A i \in 1..n :
                       /\ out[k + i].kind = "build"
                       /\ out[k + i].ref = planned.steps[i].op
                /\ out[k + n + 1] = Blank
                /\ out[Len(out)].kind = "default"

\* C9 witness: a completed emission with two setup stanzas and three steps.
C9_Witness ==
    /\ script.kind = "Ok"
    /\ Cardinality(SetupCalls(script.out)) >= 2
    /\ Len(planned.steps) >= 3

\* C10: a request with start_state = end_state, no waypoints and both files
\* given is planned with zero real steps, and the script emitted for that
\* plan has no build edge and a `default` line naming the input file.
C10_SameStateFilesPlan ==
    (Called /\ req.start_state = req.end_state /\ req.through = <<>>
        /\ req.start_file.some /\ req.end_file.some)
        => /\ planned.kind = "Plan"
           /\ \A i \in 1..Len(planned.steps) :
                  planned.steps[i].op \in {stdin_op, stdout_op}
           /\ script.kind = "Ok" =>
                  /\ BuildCalls(script.out) = {}
                  /\ script.out[Len(script.out)] = Default(planned.start)

(***************************************************************************)
(* Plans, read back.                                                       *)
(***************************************************************************)
HasPlan == planned.kind = "Plan"

StdoutStep == Step_(stdout_op, <<<<"_stdout">>>>)

\* C11: a request with start_state = end_state, no waypoints and neither
\* file is planned as exactly the stdin step followed by the stdout step,
\* and the script emitted for it invokes the stdin setup and the stdout
\* setup once each.
C11_StdinToStdoutSameState ==
    (Called /\ req.start_state = req.end_state /\ req.through = <<>>
        /\ ~req.start_file.some /\ ~req.end_file.some)
        => /\ HasPlan
           /\ Len(planned.steps) = 2
           /\ planned.steps[1].op = stdin_op
           /\ planned.steps[2].op = stdout_op
           /\ script.kind = "Ok" =>
                  \A sref \in Range(ops[stdin_op].setups) \cup Range(ops[stdout_op].setups) :
                      Cardinality(SetupCallsOf(script.out, sref)) = 1

\* C12: the stdin step is the first step of a plan exactly when the request
\* has no start file and the (stdout_op, `_stdout`) step the last exactly
\* when it has no end file; without start file the stdin step's file and
\* plan.start are both `stdin.<ext>`, ext the primary extension of the input
\* state of the first real operation; with both files no step is synthetic.
C12_SyntheticSteps ==
    HasPlan =>
        LET n == Len(planned.steps)
        IN  /\ (planned.steps[1].op = stdin_op) <=> ~req.start_file.some
            /\ (planned.steps[n] = StdoutStep) <=> ~req.end_file.some
            /\ (planned.steps[n].op = stdout_op) <=> ~req.end_file.some
            /\ ~req.start_file.some =>
                   /\ n >= 2
                   /\ planned.steps[2].op = path.val[1]
                   /\ LET ext == states[ops[planned.steps[2].op].input].extensions[1]
                      IN  /\ planned.steps[1].file = <<<<"stdin", ext>>>>
                          /\ planned.start = <<<<"stdin", ext>>>>
            /\ (req.start_file.some /\ req.end_file.some) =>
                   \A i \in 1..n : planned.steps[i].op \notin {stdin_op, stdout_op}

\* C12 witness: a plan from stdin to stdout whose first real operation reads
\* the second state and writes another one.
C12_Witness ==
    /\ HasPlan /\ ~req.start_file.some /\ ~req.end_file.some
    /\ Len(planned.steps) >= 3
    /\ planned.steps[1] = Step_(stdin_op, <<<<"stdin", "b">>>>)
    /\ ops[planned.steps[2].op].output # ops[planned.steps[2].op].input
    /\ planned.steps[Len(planned.steps)] = StdoutStep

\* C13: with an end file only the name of the last real step is replaced, by
\* the end file made relative to the working directory; plan.start, the
\* operations and the names of all other steps are those of the plan for
\* the same request without end file.
C13_EndFileReplacesLastOnly ==
    (HasPlan /\ req.end_file.some) =>
        LET q == plan([req EXCEPT !.end_file = None], TRUE)
            n == Len(planned.steps)
        IN  /\ q.kind = "Plan"
            /\ planned.start = q.start
            /\ Len(q.steps) = n + 1
            /\ \A i \in 1..(n - 1) : planned.steps[i] = q.steps[i]
            /\ planned.steps[n].op = q.steps[n].op
            /\ planned.steps[n].op \notin {stdin_op, stdout_op}
            /\ planned.steps[n].file = relative_path(req.end_file.val, req.workdir, TRUE).val

\* C13 witness: a plan of two real steps from a file in a subdirectory, built
\* in the directory `build`: the last step writes `../out.b`, the step
\* before it `foo.<ext>`.
C13_Witness ==
    /\ HasPlan /\ req.end_file.some /\ req.workdir = <<<<"build">>>>
    /\ req.start_file = Some(<<<<"src">>, <<"foo", "a">>>>)
    /\ Len(planned.steps) = 2
    /\ planned.steps[1].file[1][1] = "foo"
    /\ planned.steps[2].file = <<ParentDir, <<"out", "b">>>>

\* The file names of a plan: plan.start (for a plan from stdin, the file the
\* stdin step captures into) and the outputs of the other steps.
PlanFiles(pl) ==
    LET from == IF pl.steps[1].op = stdin_op THEN 2 ELSE 1
    IN  <<pl.start>> \o [i \in 1..(Len(pl.steps) - from + 1) |-> pl.steps[from + i - 1].file]

\* C14: in every plan the start file name and the output file names of the
\* steps are pairwise distinct, also when the chain revisits a state.
C14_FilenamesDistinct ==
    HasPlan =>
        \A i, j \in 1..Len(PlanFiles(planned)) :
            i # j => PlanFiles(planned)[i] # PlanFiles(planned)[j]

\* C15: every plan returned by plan has at least one step.
C15_StepsNonEmpty == HasPlan => planned.steps # <<>>

\* C15 witness: the empty chain (start state = end state, no waypoint), given
\* a start file and no end file: the stdout step is the only step.
C15_Witness ==
    /\ HasPlan /\ path = Some(<<>>)
    /\ req.start_file.some
    /\ planned.steps = <<StdoutStep>>

\* C16: when emission and the executor both succeed, emit_and_run removes
\* the working directory exactly when it did not exist before the run and
\* keep_build_dir is false; the directory the run itself created does not
\* count as existing before.
C16_DirectoryRemoval ==
    (ran.invoked /\ ran.status = "success") =>
        /\ ran.removed <=> (~ran.dir_before /\ ~ran.keep)
        /\ ran.kind = "Ok" => (ran.dir_after <=> ~ran.removed)

\* C16 witness: a successful run in a directory it created, removed at the
\* end.
C16_Witness ==
    /\ ran.kind = "Ok" /\ ran.invoked /\ ran.status = "success"
    /\ ~ran.dir_before /\ ~ran.keep
    /\ ran.removed /\ ~ran.dir_after

\* C17: when the executor exits with a failure status, emit_and_run returns
\* an error and leaves the working directory in place, whatever
\* keep_build_dir and whether or not the directory existed before.
C17_ExecutorFailureSurfaced ==
    (ran.invoked /\ ran.status = "failure") =>
        /\ ran.kind = "Err"
        /\ ~ran.removed
        /\ ran.dir_after

\* C18: the executor is given the quiet flag exactly when the last step of
\* the plan is the stdout step, that is when the request has no end file.
C18_QuietIffStdout ==
    ran.invoked =>
        /\ ran.quiet <=> planned.steps[Len(planned.steps)].op = stdout_op
        /\ ran.quiet <=> ~req.end_file.some

\* C18 witness: a run from a start file to stdout, started with the quiet
\* flag.
C18_Witness ==
    /\ ran.invoked /\ ran.quiet
    /\ req.start_file.some /\ ~req.end_file.some
    /\ Len(planned.steps) >= 2

\* The names the user registered are pairwise distinct (the last state and
\* the last two operations are the ones build adds).
UserNamesDistinct ==
    /\ \A g, h \in 1..(Len(states) - 1) : g # h => states[g].name # states[h].name
    /\ \A g, h \in 1..(Len(ops) - 2) : g # h => ops[g].name # ops[h].name

\* C19: when the names the user registered are pairwise distinct, looking up
\* the name of any state handle of the built catalog (the null state
\* included) returns that handle, and so for every operation handle.
C19_LookupRoundTrip ==
    (looked.called # "" /\ UserNamesDistinct) =>
        /\ looked.called = "get_state" =>
               \A h \in StateRefs : states[h].name = looked.name => looked.ref = h
        /\ looked.called = "get_op" =>
               \A o \in OpRefs : ops[o].name = looked.name => looked.ref = o

\* C20: for a base free of `..` (a leading `.` allowed, as in `./build`),
\* the path relative_path returns, read with the base as current directory,
\* names the same file as the path given, read from the invocation
\* directory.
C20_RelativePathSameFile ==
    (rel.called = "relative_path" /\ rel.out.some
        /\ \A i \in 1..Len(rel.base) : rel.base[i] # ParentDir) =>
        Resolve(Resolve(InvocationDir, rel.base), rel.out.val)
            = Resolve(InvocationDir, rel.path)

\* C21: config_val on a key absent from the configuration ends in a failure
\* value that names the key and is returned to the caller, not in an abort;
\* config_or on an absent key returns the default.
C21_MissingConfigReturned ==
    (got.called # "" /\ \A e \in got.config : e.key # got.key) =>
        /\ got.called = "config_val" => (got.kind = "Err" /\ got.text = got.key)
        /\ got.called = "config_or" => (got.kind = "Value" /\ got.text = got.default)

\* The state a segment search starts from: the request's start state for
\* the first waypoint, the output state of the waypoint before for the
\* others.
SegmentStart(r, i) == IF i = 1 THEN r.start_state ELSE ops[r.through[i - 1]].output

\* C22: for each waypoint w whose input state is reachable from where its
\* segment starts, find_path_segment returns a chain of the least number of
\* hops to the input state of w, over all operations, followed by w.
C22_WaypointSegmentShortest ==
    Called =>
        \A i \in 1..Len(req.through) :
            LET w == req.through[i]
                cur == SegmentStart(req, i)
                seg == find_path_segment(cur, DestOp(w))
            IN  Reachable(cur, ops[w].input) =>
                    /\ seg.some
                    /\ Len(seg.val) = Dist(cur, ops[w].input) + 1
                    /\ seg.val[Len(seg.val)] = w
                    /\ IsChain(SubSeq(seg.val, 1, Len(seg.val) - 1), cur, ops[w].input)

\* C23: the build callbacks are chained: the first gets plan.start as input,
\* each later one the file of the step before, each its own step's file as
\* output, and the `default` line names the file of the last step.
C23_BuildCallbacksChained ==
    HasEmitted =>
        LET out == script.out
            b == InOrder(BuildCalls(out))
            n == Len(planned.steps)
        IN  /\ Len(b) <= n
            /\ \A i \in 1..Len(b) :
                   /\ out[b[i]].ref = planned.steps[i].op
                   /\ out[b[i]].a = (IF i = 1 THEN planned.start ELSE planned.steps[i - 1].file)
                   /\ out[b[i]].b = planned.steps[i].file
            /\ script.kind = "Ok" =>
                   /\ Len(b) = n
                   /\ out[Len(out)] = Default(planned.steps[n].file)

\* C23 witness: a completed emission of a plan from a file through two real
\* steps to stdout, each step's file different from the one before.
C23_Witness ==
    /\ script.kind = "Ok"
    /\ req.start_file.some
    /\ Len(planned.steps) = 3
    /\ planned.steps[1].file # planned.start
    /\ planned.steps[2].file # planned.steps[1].file
    /\ planned.steps[3].file # planned.steps[2].file

\* C24: every real step whose name the end file does not replace is named
\* `<stem>.<primary extension of the operation's output state>`, the stem
\* being the file stem of the relativized start file, or `stdin` without
\* start file, the same for all steps.
C24_StepNamesFromStem ==
    HasPlan =>
        LET n == Len(planned.steps)
            stem == IF req.start_file.some THEN file_stem(planned.start).val ELSE <<"stdin">>
        IN  \A i \in 1..n :
                (/\ planned.steps[i].op \notin {stdin_op, stdout_op}
                 /\ ~(req.end_file.some /\ i = n))
                    => planned.steps[i].file
                           = <<Append(stem, states[ops[planned.steps[i].op].output].extensions[1])>>

\* C25: when creating the directory or writing the script fails,
\* emit_and_run returns the error, does not start the executor and does not
\* remove the directory; the executor is started only after the whole
\* script was written.
C25_NoExecutorAfterFailedEmission ==
    ran.kind # "NotCalled" =>
        /\ script.kind # "Ok" =>
               /\ ran.kind = "Err"
               /\ ~ran.invoked
               /\ ~ran.removed
               /\ (ran.dir_before \/ script.kind = "Err") => ran.dir_after
        /\ ran.invoked => script.kind = "Ok"

\* C25 witness: a callback fails in a directory the run created with
\* keep_build_dir false: the directory stays.
C25_Witness ==
    /\ ran.kind = "Err" /\ script.kind = "Err"
    /\ ~ran.dir_before /\ ~ran.keep
    /\ ~ran.invoked /\ ran.dir_after

\* C26: in graph mode a state other than the null state is highlighted
\* exactly when it is the request's start state or the output state of a
\* real step, also for plans from stdin; the null state and the two
\* reserved operations are not rendered; an edge is emphasised exactly when
\* its operation is a step of the plan.
C26_GraphHighlights ==
    (/\ dot.kind = "Ok"
     /\ \E k \in 1..Len(planned.steps) : planned.steps[k].op \notin {stdin_op, stdout_op}) =>
        /\ \A i \in 1..Len(dot.nodes) :
               /\ dot.nodes[i].state # ops[stdin_op].input
               /\ dot.nodes[i].highlighted <=>
                      \/ dot.nodes[i].state = req.start_state
                      \/ \E k \in 1..Len(planned.steps) :
                             /\ planned.steps[k].op \notin {stdin_op, stdout_op}
                             /\ ops[planned.steps[k].op].output = dot.nodes[i].state
        /\ \A i \in 1..Len(dot.edges) :
               /\ dot.edges[i].op \notin {stdin_op, stdout_op}
               /\ dot.edges[i].emphasised <=>
                      \E k \in 1..Len(planned.steps) : planned.steps[k].op = dot.edges[i].op

\* C27: each lookup returns the lowest handle that matches (by name for
\* get_state and get_op, by listed extension for guess_state) and None when
\* nothing matches.
C27_FirstMatch ==
    /\ looked.called = "get_state" =>
           LET M == {h \in StateRefs : states[h].name = looked.name}
           IN  IF M = {} THEN looked.ref = 0
               ELSE looked.ref \in M /\ \A h \in M : looked.ref <= h
    /\ looked.called = "get_op" =>
           LET M == {o \in OpRefs : ops[o].name = looked.name}
           IN  IF M = {} THEN looked.ref = 0
               ELSE looked.ref \in M /\ \A o \in M : looked.ref <= o
    /\ looked.called = "guess_state" =>
           LET M == {h \in StateRefs :
                        /\ looked.name # ""
                        /\ looked.name \in Range(states[h].extensions)}
           IN  IF M = {} THEN looked.ref = 0
               ELSE looked.ref \in M /\ \A h \in M : looked.ref <= h

\* C27 witness: two states registered under one name, the first one found.
C27_Witness ==
    /\ looked.called = "get_state"
    /\ Len(states) = 3
    /\ states[1].name = states[2].name
    /\ looked.name = states[1].name
    /\ looked.ref = 1

\* C28: a chain returned by find_path contains the stdin or the stdout
\* operation only if the request lists it as a waypoint; so in a plan for a
\* request without such a waypoint the stdin operation is at the first step
\* only and the stdout operation at the last step only.
C28_ReservedOpsOnlyAsWaypoints ==
    (Called /\ path.some) =>
        /\ \A i \in 1..Len(path.val) :
               path.val[i] \in {stdin_op, stdout_op} => path.val[i] \in Range(req.through)
        /\ (HasPlan /\ Range(req.through) \cap {stdin_op, stdout_op} = {}) =>
               \A i \in 1..Len(planned.steps) :
                   /\ planned.steps[i].op = stdin_op => i = 1
                   /\ planned.steps[i].op = stdout_op => i = Len(planned.steps)

\* C28 witness: a plan from stdin to stdout through a waypoint on a catalog
\* with a cycle: the stdin operation first, the stdout operation last, real
\* operations between.
C28_Witness ==
    /\ HasPlan /\ path.some
    /\ ~req.start_file.some /\ ~req.end_file.some
    /\ Len(req.through) = 1
    /\ Len(planned.steps) = 4
    /\ planned.steps[1].op = stdin_op
    /\ planned.steps[4].op = stdout_op
    /\ ops[planned.steps[3].op].output = req.start_state

\* C29: find_path terminates on every catalog, with cycles, self-loops and
\* parallel operations too: in each segment search a state is put on the
\* queue at most once, and a search that was started reaches the return of
\* find_path.
C29_FindPathTerminates ==
    /\ [](\A x \in 1..Len(srch.enq) : srch.enq[x] <= 1)
    /\ (srch.pc \in {"while", "for", "walk"}) ~> (srch.pc = "done")

\* C29 witness: a search through a waypoint on a catalog whose two
\* operations form a cycle has returned a chain that goes round the cycle.
C29_Witness ==
    /\ srch.pc = "done"
    /\ srch.result.some
    /\ Len(srch.through) = 1
    /\ Len(srch.result.val) >= 2
    /\ ops[1].input = ops[2].output /\ ops[2].input = ops[1].output
    /\ ops[1].input # ops[1].output
    /\ srch.start = srch.end

\* C30: for every request whose handles belong to the built catalog (here:
\* whose start and end state are states the user registered), plan returns
\* a Plan or None and does not abort.
C30_PlanTotal ==
    (/\ Called
     /\ req.start_state # ops[stdin_op].input
     /\ req.end_state # ops[stdin_op].input)
        => planned.kind \in {"Plan", "None"}

====
